---- MODULE Spec2Model ----
(***************************************************************************)
(* A model of trellobug.py: one run of the command-line tool that files a  *)
(* Bugzilla bug from a Trello card and writes the bug's URL back onto the  *)
(* card.  Strings are sequences of one-character strings, so that the two  *)
(* regular expressions, urlparse, rstrip and str.format are computed and   *)
(* not assumed.                                                            *)
(***************************************************************************)
EXTENDS Integers, Sequences, FiniteSets, TLC

(* ------------------------------ bounds -------------------------------- *)

\* longest card title enumerated by SpecTitle
MaxTitleLen == 5
\* longest command-line argument enumerated by SpecUrl
MaxArgLen == 7
\* most Unauthorized answers handled in one run (the retry loops of main
\* are unbounded in the code)
MaxAuthFailures == 2

(* ------------------------------ strings ------------------------------- *)

NoVal == "<none>"

SeqsUpTo(S, n) == UNION {[1..k -> S] : k \in 0..n}

Drop(s, n) == SubSeq(s, n + 1, Len(s))

IsPrefix(p, s) == Len(p) <= Len(s) /\ SubSeq(s, 1, Len(p)) = p

\* str.find(c, start) as a 1-based index, 0 for "not found"
Find(s, c, start) ==
    LET hits == {i \in start..Len(s) : s[i] = c}
    IN  IF hits = {} THEN 0 ELSE CHOOSE i \in hits : \A j \in hits : i <= j

Contains(s, c) == Find(s, c, 1) # 0

Letters == {"a", "b", "c", "d", "x"}
Digits == {"3", "7"}
Whitespace == {" ", "\n"}

\* urllib.parse.scheme_chars: letters, digits and "+-."
scheme_chars == Letters \cup Digits \cup {"+", "-", "."}

\* str.rstrip('/')
RECURSIVE rstrip_slash(_)
rstrip_slash(s) ==
    IF s # <<>> /\ s[Len(s)] = "/" THEN rstrip_slash(SubSeq(s, 1, Len(s) - 1))
    ELSE s

(* --------------------------- program constants ------------------------ *)

DEFAULT_BUGZILLA_URL == <<"m", "/">>
LOCAL_CONFIG == "./.trello-to-bug"
HOME_CONFIG == "~/.trello-to-bug"
DEFAULT_CONFIG_FILES == <<LOCAL_CONFIG, HOME_CONFIG>>

(* ------------------------- regular expressions ------------------------ *)

\* the first index j >= i of s with s[j] \notin S, Len(s) + 1 when there is
\* none: where a greedy S* that starts at i stops
RECURSIVE SkipWhile(_, _, _)
SkipWhile(s, i, S) ==
    IF i <= Len(s) /\ s[i] \in S THEN SkipWhile(s, i + 1, S) ELSE i

NoMatch == [matched |-> FALSE, group1 |-> <<>>]

\* story_name_with_points with [\s]+ in the place of [\s]* (a mutant)
story_name_with_points_ws_required(name) ==
    IF name # <<>> /\ name[1] = "("
    THEN LET d == SkipWhile(name, 2, Digits)
         IN  IF d > 2 /\ d <= Len(name) /\ name[d] = ")"
             THEN LET w == SkipWhile(name, d + 1, Whitespace)
                      n == Find(name, "\n", w)
                      e == IF n = 0 THEN Len(name) + 1 ELSE n
                  IN  IF w > d + 1
                      THEN [matched |-> TRUE, group1 |-> SubSeq(name, w, e - 1)]
                      ELSE NoMatch
             ELSE NoMatch
    ELSE NoMatch

\* story_name_with_points.match(name): \([\d]+\)[\s]*(.*), anchored at the
\* start by match(); each of [\d]+ and [\s]* takes all it can, and "." does
\* not match a newline
story_name_with_points(name) ==
    IF name # <<>> /\ name[1] = "("
    THEN LET d == SkipWhile(name, 2, Digits)
         IN  IF d > 2 /\ d <= Len(name) /\ name[d] = ")"
             THEN LET w == SkipWhile(name, d + 1, Whitespace)
                      n == Find(name, "\n", w)
                      e == IF n = 0 THEN Len(name) + 1 ELSE n
                  IN  [matched |-> TRUE, group1 |-> SubSeq(name, w, e - 1)]
             ELSE NoMatch
    ELSE NoMatch

\* card_path.match(path): ^/c/([^/]+)/ without the closing "/" (a mutant)
card_path_no_closing_slash(path) ==
    IF Len(path) >= 4 /\ SubSeq(path, 1, 3) = <<"/", "c", "/">> /\ path[4] # "/"
    THEN LET s == Find(path, "/", 4)
             e == IF s = 0 THEN Len(path) + 1 ELSE s
         IN  [matched |-> TRUE, group1 |-> SubSeq(path, 4, e - 1)]
    ELSE NoMatch

\* card_path.match(path): ^/c/([^/]+)/
card_path(path) ==
    IF Len(path) >= 4 /\ SubSeq(path, 1, 3) = <<"/", "c", "/">>
    THEN LET s == Find(path, "/", 4)
         IN  IF s > 4
             THEN [matched |-> TRUE, group1 |-> SubSeq(path, 4, s - 1)]
             ELSE NoMatch
    ELSE NoMatch

(* ------------------------------ urlparse ------------------------------ *)

\* urllib.parse._splitnetloc(url, 2): the netloc ends at the first of "/",
\* "?", "#" after the leading "//"
splitnetloc(url) ==
    LET ends == {Find(url, c, 3) : c \in {"/", "?", "#"}} \ {0}
        delim == IF ends = {} THEN Len(url) + 1
                 ELSE CHOOSE i \in ends : \A j \in ends : i <= j
    IN  [netloc |-> SubSeq(url, 3, delim - 1), rest |-> Drop(url, delim - 1)]

\* urllib.parse.urlparse(url).path: the scheme up to the first ":" when all
\* of it is scheme characters, then the netloc after "//", then the
\* fragment after "#" and the query after "?" are cut off
urlparse_path(url) ==
    LET i == Find(url, ":", 1)
        isScheme == /\ i > 1
                    /\ url[1] \in Letters
                    /\ \A k \in 1..(i - 1) : url[k] \in scheme_chars
        u1 == IF isScheme THEN Drop(url, i) ELSE url
        u2 == IF Len(u1) >= 2 /\ SubSeq(u1, 1, 2) = <<"/", "/">>
              THEN splitnetloc(u1).rest ELSE u1
        h == Find(u2, "#", 1)
        u3 == IF h # 0 THEN SubSeq(u2, 1, h - 1) ELSE u2
        q == Find(u3, "?", 1)
    IN  IF q # 0 THEN SubSeq(u3, 1, q - 1) ELSE u3

(* ------------------------------- config ------------------------------- *)

\* A ConfigParser is modelled by the set of options it holds, the value of
\* [bugzilla]url, and the identity of the OAuth token pair: 0 is the pair
\* read from the file, n > 0 the n-th pair generated in this run.
BZ_API_KEY == "bugzilla.api_key"
BZ_URL == "bugzilla.url"
TR_API_KEY == "trello.api_key"
TR_API_SECRET == "trello.api_secret"
TR_OAUTH_TOKEN == "trello.oauth_token"
TR_OAUTH_TOKEN_SECRET == "trello.oauth_token_secret"

RequiredOptions ==
    {BZ_API_KEY, TR_API_KEY, TR_API_SECRET, TR_OAUTH_TOKEN, TR_OAUTH_TOKEN_SECRET}

EmptyConfig == [has |-> {}, url |-> <<>>, token |-> 0]

\* config.set(section, option, val)
config_set(config, option) == [config EXCEPT !.has = @ \cup {option}]

\* query_option without the config.set (a mutant)
query_option_no_set(config, option, val) ==
    IF option \notin config.has
    THEN [config |-> config, ret |-> TRUE]
    ELSE [config |-> config, ret |-> FALSE]

\* query_option(config, section, option, ...), for the non-empty val that
\* ends its "while not val" loop
query_option(config, option, val) ==
    IF option \notin config.has
    THEN [config |-> config_set(config, option), ret |-> TRUE]
    ELSE [config |-> config, ret |-> FALSE]

\* generate_trello_oauth_tokens(config): create_oauth_token answers with
\* the pair number gen + 1, which is set into config
generate_trello_oauth_tokens(config, gen) ==
    [has |-> config.has \cup {TR_OAUTH_TOKEN, TR_OAUTH_TOKEN_SECRET},
     url |-> config.url,
     token |-> gen + 1]

\* get_trello(config): a client bound to the token pair config holds now
get_trello(config) == [token |-> config.token]

\* write_config(config, config_file): the file's new state
write_config(disk, config, config_file) ==
    [disk EXCEPT ![config_file] =
        [exists |-> TRUE, has |-> config.has, url |-> config.url,
         token |-> config.token]]

\* handle_expired_trello_tokens without the write_config (a mutant)
handle_expired_trello_tokens_no_write(config, gen) ==
    LET c == generate_trello_oauth_tokens(config, gen)
    IN  [config |-> c, written |-> <<>>, trello |-> get_trello(c)]

\* handle_expired_trello_tokens(config, config_file): the new config, the
\* configs it writes to config_file, and the client it returns
handle_expired_trello_tokens(config, gen) ==
    LET c == generate_trello_oauth_tokens(config, gen)
    IN  [config |-> c, written |-> <<c>>, trello |-> get_trello(c)]

\* the for loop of main over DEFAULT_CONFIG_FILES: each file that exists is
\* assigned in turn
RECURSIVE config_file_loop(_, _, _)
config_file_loop(config_file, files, disk) ==
    IF files = <<>> THEN config_file
    ELSE config_file_loop(
             IF disk[Head(files)].exists THEN Head(files) ELSE config_file,
             Tail(files), disk)

\* main, lines 214-219: the loop has no break, so its else clause runs
\* whenever the loop ends
main_config_file(config_file, disk) ==
    IF config_file = NoVal
    THEN LET looped == config_file_loop(config_file, DEFAULT_CONFIG_FILES, disk)
         IN  DEFAULT_CONFIG_FILES[1]
    ELSE config_file

(* ----------------------------- filing a bug --------------------------- *)

bug_api_url_tmpl(base) == base \o <<"/rest/bug">>
bug_url_tmpl(base, id) == base \o <<"/show_bug.cgi?id=">> \o <<ToString(id)>>

\* bz_config.get('url', DEFAULT_BUGZILLA_URL).rstrip('/')
bugzilla_url_base(bz_config) ==
    rstrip_slash(IF BZ_URL \in bz_config.has THEN bz_config.url
                 ELSE DEFAULT_BUGZILLA_URL)

\* the summary of the bug: group 1 of the match, or the name as it is
summary_of(name) ==
    LET m == story_name_with_points(name)
    IN  IF m.matched THEN m.group1 ELSE name

\* the request file_trello_bug builds
bug_request(bz_config, card) ==
    [url |-> bug_api_url_tmpl(bugzilla_url_base(bz_config)),
     summary |-> summary_of(card.name),
     description |-> card.description]

PyInt(n) == [type |-> "int", value |-> n]

\* file_trello_bug that answers an HTTPError with a bug record (a mutant)
file_trello_bug_no_return(bz_config, card, response) ==
    [type |-> "dict",
     id |-> response.id,
     url |-> bug_url_tmpl(bugzilla_url_base(bz_config), response.id),
     summary |-> summary_of(card.name)]

\* file_trello_bug(bz_config, card), given the tracker's answer: the int 1
\* on an HTTPError, else the bug
file_trello_bug(bz_config, card, response) ==
    IF response.status = "HTTPError" THEN PyInt(1)
    ELSE [type |-> "dict",
          id |-> response.id,
          url |-> bug_url_tmpl(bugzilla_url_base(bz_config), response.id),
          summary |-> summary_of(card.name)]

\* the new description with the URL put last (a mutant)
new_description_url_last(url, description) ==
    description \o <<"\n", "\n">> \o url

\* '{}\n\n{}'.format(bug['url'], card.description)
new_description(url, description) ==
    url \o <<"\n", "\n">> \o description

(* --------------------------- the command line ------------------------- *)

\* __main__, lines 262-270: the card id of the argument, or no card id
resolve_card_id(card_id_or_url) ==
    IF Contains(card_id_or_url, "/")
    THEN LET m == card_path(urlparse_path(card_id_or_url))
         IN  IF ~m.matched THEN [ok |-> FALSE, card_id |-> <<>>]
             ELSE [ok |-> TRUE, card_id |-> m.group1]
    ELSE [ok |-> TRUE, card_id |-> card_id_or_url]

(* ----------------------------- load_config ---------------------------- *)

\* config.read(config_file): a file that does not exist reads as empty
config_read(disk, config_file) ==
    IF disk[config_file].exists
    THEN [has |-> disk[config_file].has, url |-> disk[config_file].url,
          token |-> disk[config_file].token]
    ELSE EmptyConfig

\* the options load_config asks for, in its order
QueryOptions == <<BZ_API_KEY, TR_API_KEY, TR_API_SECRET>>
QueryOptionSet == {BZ_API_KEY, TR_API_KEY, TR_API_SECRET}

\* load_config, lines 202-210: generate the token pair when one of its two
\* options is missing, write the file when anything changed
load_config_finish(config, changed, gen) ==
    LET need == \/ TR_OAUTH_TOKEN \notin config.has
                \/ TR_OAUTH_TOKEN_SECRET \notin config.has
        c == IF need THEN generate_trello_oauth_tokens(config, gen) ELSE config
        ch == changed \/ need
    IN  [config |-> c, changed |-> ch, generated |-> need,
         written |-> IF ch THEN <<c>> ELSE <<>>]

(* ------------------------------- main --------------------------------- *)

\* the control flow of main after load_config (a mutant: the handler of the
\* update loop goes back to filing the bug)
main_next_refile(at, outcome) ==
    CASE at = "fetch" -> IF outcome = "ok" THEN "file_bug" ELSE "fetch_expired"
      [] at = "fetch_expired" -> "fetch"
      [] at = "file_bug" -> IF outcome = "ok" THEN "update" ELSE "exit"
      [] at = "update" -> IF outcome = "ok" THEN "exit" ELSE "update_expired"
      [] at = "update_expired" -> "file_bug"

\* the control flow of main after load_config: the fetch loop, the bug,
\* the update loop
main_next(at, outcome) ==
    CASE at = "fetch" -> IF outcome = "ok" THEN "file_bug" ELSE "fetch_expired"
      [] at = "fetch_expired" -> "fetch"
      [] at = "file_bug" -> IF outcome = "ok" THEN "update" ELSE "exit"
      [] at = "update" -> IF outcome = "ok" THEN "exit" ELSE "update_expired"
      [] at = "update_expired" -> "update"

(* ------------------------------- state -------------------------------- *)

VARIABLES
    pc,            \* where the run is
    arg,           \* args.card_id_or_url
    config_arg,    \* args.config, NoVal without --config
    disk,          \* the config files: path -> contents
    config_file,   \* main's config_file
    card_id,       \* the card id handed to main
    config,        \* the ConfigParser in memory
    changed,       \* load_config's changed
    trello,        \* main's trello: the client
    card,          \* main's card, with the client that fetched it
    bug,           \* main's bug
    board,         \* the card as the board service holds it
    validTokens,   \* the token pairs the board service accepts
    gen,           \* the token pairs generated in this run
    posted,        \* the requests POSTed to the tracker, in order
    requests,      \* every remote request issued, with the config it saw
    retrying,      \* the current loop of main has handled an Unauthorized
    authFailures,  \* the Unauthorized answers handled
    loadWrites,    \* the write_config calls of load_config
    writes,        \* all write_config calls
    updates,       \* the card updates the board service accepted
    desc0,         \* the board's description when the run started
    tracker,       \* the tracker's answer to the POST, "none" before it
    printed,       \* the messages printed
    exit_code,     \* the exit status, -1 while running
    raised         \* the exception that ended the run, "none" if none

vars == <<pc, arg, config_arg, disk, config_file, card_id, config, changed,
          trello, card, bug, board, validTokens, gen, posted, requests,
          retrying, authFailures, loadWrites, writes, updates, desc0, tracker,
          printed, exit_code, raised>>

CUSTOM_CONFIG == "custom.ini"
Paths == {LOCAL_CONFIG, HOME_CONFIG, CUSTOM_CONFIG}
Options == RequiredOptions \cup {BZ_URL}

NoFile == [exists |-> FALSE, has |-> {}, url |-> <<>>, token |-> 0]
FileWith(S) ==
    [exists |-> TRUE, has |-> S,
     url |-> IF BZ_URL \in S THEN <<"b", "/", "/">> ELSE <<>>,
     token |-> 0]

\* the files a run may find, every file with the same options
InitDisks ==
    {[p \in Paths |-> IF p \in E THEN FileWith(S) ELSE NoFile] :
        E \in SUBSET Paths, S \in SUBSET Options}

TitleChars == {"(", ")", "3", " ", "\n", "a"}
ArgChars == {"/", "c", "a", ":", "?"}

SampleArgs == {<<"a", "c">>, <<"/", "c", "/", "a", "c", "/", "x">>, <<"/", "a">>}
SampleTitles == {<<"(", "3", ")", " ", "a">>, <<"a">>}
SampleDescs == {<<>>, <<"d">>}
BugIds == {7, 42}
Responses ==
    {[status |-> "ok", id |-> i] : i \in BugIds}
        \cup {[status |-> "HTTPError", id |-> 0]}
Inputs == {<<>>, <<"k">>}

NoCard == [name |-> <<>>, description |-> <<>>, client |-> [token |-> -1]]
NoClient == [token |-> -1]

Start ==
    /\ pc = "args"
    /\ config_file = NoVal
    /\ card_id = <<>>
    /\ config = EmptyConfig
    /\ changed = FALSE
    /\ trello = NoClient
    /\ card = NoCard
    /\ bug = PyInt(0)
    /\ validTokens = {0}
    /\ gen = 0
    /\ posted = <<>>
    /\ requests = {}
    /\ retrying = FALSE
    /\ authFailures = 0
    /\ loadWrites = 0
    /\ writes = 0
    /\ updates = 0
    /\ tracker = "none"
    /\ printed = {}
    /\ exit_code = -1
    /\ raised = "none"

Init ==
    /\ Start
    /\ arg \in SampleArgs
    /\ config_arg \in {NoVal, CUSTOM_CONFIG}
    /\ disk \in InitDisks
    /\ config_arg = NoVal => ~disk[CUSTOM_CONFIG].exists
    /\ config_arg # NoVal => ~disk[HOME_CONFIG].exists
    /\ board \in [name : SampleTitles, description : SampleDescs]
    /\ desc0 = board.description

(* ------------------------------ actions ------------------------------- *)

Request(kind, token) ==
    [kind |-> kind, have |-> config.has, token |-> token,
     latest |-> config.token, retry |-> retrying]

Exit(code, exc) ==
    /\ pc' = "exit"
    /\ exit_code' = code
    /\ raised' = exc

Running == /\ UNCHANGED <<exit_code, raised>>

\* __main__, lines 262-274, up to the call of main
ParseArgs ==
    /\ pc = "args"
    /\ LET r == resolve_card_id(arg)
       IN  IF r.ok
           THEN /\ card_id' = r.card_id
                /\ pc' = "main"
                /\ printed' = printed
                /\ Running
           ELSE /\ card_id' = card_id
                /\ printed' = printed \cup {"no valid card path"}
                /\ Exit(1, "none")
    /\ UNCHANGED <<arg, config_arg, disk, config_file, config, changed, trello,
                   card, bug, board, validTokens, gen, posted, requests,
                   retrying, authFailures, loadWrites, writes, updates,
                   desc0, tracker>>

\* main, lines 214-221, and load_config, lines 170-182
MainLoadConfig ==
    /\ pc = "main"
    /\ config_file' = main_config_file(config_arg, disk)
    /\ config' = config_read(disk, config_file')
    /\ changed' = FALSE
    /\ pc' = "query1"
    /\ Running
    /\ UNCHANGED <<arg, config_arg, disk, card_id, trello, card, bug, board,
                   validTokens, gen, posted, requests, retrying, authFailures,
                   loadWrites, writes, updates, desc0, tracker, printed>>

QueryPc == <<"query1", "query2", "query3">>
AfterQuery == <<"query2", "query3", "tokens">>

\* load_config, lines 184-200: the k-th query_option; an empty input is
\* asked for again
Query(k) ==
    /\ pc = QueryPc[k]
    /\ \E val \in Inputs :
          IF QueryOptions[k] \notin config.has /\ val = <<>>
          THEN UNCHANGED <<pc, config, changed>>
          ELSE LET r == query_option(config, QueryOptions[k], val)
               IN  /\ config' = r.config
                   /\ changed' = (changed \/ r.ret)
                   /\ pc' = AfterQuery[k]
    /\ Running
    /\ UNCHANGED <<arg, config_arg, disk, config_file, card_id, trello, card,
                   bug, board, validTokens, gen, posted, requests, retrying,
                   authFailures, loadWrites, writes, updates, desc0, tracker, printed>>

ApplyWrites(d, written) ==
    IF written = <<>> THEN d ELSE write_config(d, written[1], config_file)

\* load_config, lines 202-210, and main, lines 223-226
LoadConfigFinish ==
    /\ pc = "tokens"
    /\ LET r == load_config_finish(config, changed, gen)
       IN  /\ config' = r.config
           /\ changed' = r.changed
           /\ gen' = IF r.generated THEN gen + 1 ELSE gen
           /\ validTokens' = IF r.generated THEN validTokens \cup {gen + 1}
                             ELSE validTokens
           /\ requests' = IF r.generated
                          THEN requests \cup {Request("create_oauth_token", -1)}
                          ELSE requests
           /\ disk' = ApplyWrites(disk, r.written)
           /\ loadWrites' = loadWrites + Len(r.written)
           /\ writes' = writes + Len(r.written)
           /\ trello' = get_trello(r.config)
    /\ pc' = "fetch"
    /\ Running
    /\ UNCHANGED <<arg, config_arg, config_file, card_id, card, bug, board,
                   posted, retrying, authFailures, updates, desc0, tracker, printed>>

\* main, lines 228-230: trello.get_card(card_id)
GetCard ==
    /\ pc = "fetch"
    /\ requests' = requests \cup {Request("get_card", trello.token)}
    /\ IF trello.token \in validTokens
       THEN /\ card' = [name |-> board.name, description |-> board.description,
                        client |-> trello]
            /\ retrying' = FALSE
            /\ pc' = main_next("fetch", "ok")
       ELSE /\ pc' = main_next("fetch", "Unauthorized")
            /\ UNCHANGED <<card, retrying>>
    /\ Running
    /\ UNCHANGED <<arg, config_arg, disk, config_file, card_id, config, changed,
                   trello, bug, board, validTokens, gen, posted, authFailures,
                   loadWrites, writes, updates, desc0, tracker, printed>>

\* main, lines 231-232 and 244-245: trello = handle_expired_trello_tokens(...)
HandleExpired(at) ==
    /\ pc = at
    /\ authFailures < MaxAuthFailures
    /\ LET r == handle_expired_trello_tokens(config, gen)
       IN  /\ config' = r.config
           /\ disk' = ApplyWrites(disk, r.written)
           /\ writes' = writes + Len(r.written)
           /\ trello' = r.trello
    /\ gen' = gen + 1
    /\ validTokens' = validTokens \cup {gen + 1}
    /\ requests' = requests \cup {Request("create_oauth_token", -1)}
    /\ authFailures' = authFailures + 1
    /\ retrying' = TRUE
    /\ printed' = printed \cup {"token expired"}
    /\ pc' = main_next(at, "ok")
    /\ Running
    /\ UNCHANGED <<arg, config_arg, config_file, card_id, changed, card, bug,
                   board, posted, loadWrites, updates, desc0, tracker>>

HandleExpiredFetch == HandleExpired("fetch_expired")
HandleExpiredUpdate == HandleExpired("update_expired")

\* bug['id'] and bug['url'] of line 236: an int is not subscriptable
Subscriptable(b) == b.type = "dict"

\* main, lines 234-237: file the bug and print it
MainFileBug ==
    /\ pc = "file_bug"
    /\ \E response \in Responses :
          /\ posted' = Append(posted, bug_request(config, card))
          /\ tracker' = response.status
          /\ bug' = file_trello_bug(config, card, response)
          /\ requests' = requests \cup {Request("post_bug", -1)}
          /\ IF Subscriptable(bug')
             THEN /\ printed' = printed \cup
                        (IF response.status = "ok" THEN {"bug filed"}
                         ELSE {"bugzilla error", "bug filed"})
                  /\ pc' = main_next("file_bug", "ok")
                  /\ Running
             ELSE /\ printed' = printed \cup {"bugzilla error"}
                  /\ Exit(1, "TypeError")
    /\ retrying' = FALSE
    /\ UNCHANGED <<arg, config_arg, disk, config_file, card_id, config, changed,
                   trello, card, board, validTokens, gen, authFailures,
                   loadWrites, writes, updates, desc0>>

\* main, lines 239-248: card.set_description(...) goes through the client
\* the card was fetched with
SetDescription ==
    /\ pc = "update"
    /\ requests' = requests \cup {Request("set_description", card.client.token)}
    /\ IF card.client.token \in validTokens
       THEN /\ board' = [board EXCEPT !.description =
                            new_description(bug.url, card.description)]
            /\ card' = [card EXCEPT !.description =
                            new_description(bug.url, card.description)]
            /\ updates' = updates + 1
            /\ printed' = printed \cup {"card updated"}
            /\ Exit(0, "none")
       ELSE /\ pc' = main_next("update", "Unauthorized")
            /\ Running
            /\ UNCHANGED <<board, card, updates, printed>>
    /\ UNCHANGED <<arg, config_arg, disk, config_file, card_id, config, changed,
                   trello, bug, validTokens, gen, posted, retrying, authFailures,
                   loadWrites, writes, desc0, tracker>>

\* the places where the run waits in input()
AtPrompt ==
    \/ \E k \in 1..3 : pc = QueryPc[k] /\ QueryOptions[k] \notin config.has
    \/ pc = "tokens" /\ load_config_finish(config, changed, gen).generated
    \/ pc \in {"fetch_expired", "update_expired"}

\* ctrl-C at a prompt: KeyboardInterrupt ends the run
Abort ==
    /\ AtPrompt
    /\ \E code \in {1, 130} : Exit(code, "KeyboardInterrupt")
    /\ UNCHANGED <<arg, config_arg, disk, config_file, card_id, config, changed,
                   trello, card, bug, board, validTokens, gen, posted, requests,
                   retrying, authFailures, loadWrites, writes, updates,
                   desc0, tracker, printed>>

\* the board service stops accepting a token pair (it expired or was revoked)
Expire ==
    /\ pc \in {"fetch", "update"}
    /\ \E t \in validTokens : validTokens' = validTokens \ {t}
    /\ UNCHANGED <<pc, arg, config_arg, disk, config_file, card_id, config,
                   changed, trello, card, bug, board, gen, posted, requests,
                   retrying, authFailures, loadWrites, writes, updates,
                   desc0, tracker, printed, exit_code, raised>>

Next ==
    \/ ParseArgs
    \/ MainLoadConfig
    \/ \E k \in 1..3 : Query(k)
    \/ LoadConfigFinish
    \/ GetCard
    \/ HandleExpiredFetch
    \/ MainFileBug
    \/ SetDescription
    \/ HandleExpiredUpdate
    \/ Abort
    \/ Expire

Spec == Init /\ [][Next]_vars

(* ------------------- the title and the argument alone ----------------- *)

FullDisk ==
    [p \in Paths |-> IF p = CUSTOM_CONFIG THEN FileWith(Options) ELSE NoFile]

\* runs over every title of up to MaxTitleLen characters, with a complete
\* config file and a board that accepts the file's token pair
InitTitle ==
    /\ Start
    /\ arg = <<"a", "c">>
    /\ config_arg = CUSTOM_CONFIG
    /\ disk = FullDisk
    /\ board \in [name : SeqsUpTo(TitleChars, MaxTitleLen), description : {<<"d">>}]
    /\ desc0 = board.description

NextTitle ==
    \/ ParseArgs
    \/ MainLoadConfig
    \/ \E k \in 1..3 : Query(k)
    \/ LoadConfigFinish
    \/ GetCard
    \/ MainFileBug

SpecTitle == InitTitle /\ [][NextTitle]_vars

\* runs over every argument of up to MaxArgLen characters, up to the
\* reading of the config file
InitUrl ==
    /\ Start
    /\ arg \in SeqsUpTo(ArgChars, MaxArgLen)
    /\ config_arg = CUSTOM_CONFIG
    /\ disk = FullDisk
    /\ board = [name |-> <<"a">>, description |-> <<"d">>]
    /\ desc0 = board.description

NextUrl ==
    \/ ParseArgs
    \/ MainLoadConfig

SpecUrl == InitUrl /\ [][NextUrl]_vars

(* ------------------------------ properties ---------------------------- *)

Issued(kind) == \E r \in requests : r.kind = kind

\* C1: a description update is requested only after the tracker answered
\* the POST with success; once the tracker has answered with an HTTP error
\* no update request is ever sent and the board keeps the description
C1_UpdateOnlyAfterSuccess ==
    /\ Issued("set_description") => Len(posted) = 1 /\ tracker = "ok"
    /\ tracker = "HTTPError" =>
          /\ ~Issued("set_description")
          /\ updates = 0
          /\ board.description = desc0

C1_Witness ==
    /\ pc = "exit"
    /\ tracker = "HTTPError"
    /\ Issued("post_bug")

\* C2 (as claimed): a run whose POST failed with an HTTP error ends with
\* main returning 1, no unhandled exception and no "Bug ... filed" line;
\* exit code 0 only after the bug was created and the card updated
C2_TrackerErrorReturnsOne ==
    /\ (pc = "exit" /\ tracker = "HTTPError") =>
          /\ exit_code = 1
          /\ raised = "none"
          /\ "bug filed" \notin printed
    /\ (pc = "exit" /\ exit_code = 0) => (tracker = "ok" /\ updates = 1)

IsSuffix(t, s) == Len(t) <= Len(s) /\ Drop(s, Len(s) - Len(t)) = t

\* C3 (as claimed): the description written back has the previous
\* description as a prefix and the bug's URL after it
C3_UrlAppended ==
    updates > 0 =>
        /\ IsPrefix(desc0, board.description)
        /\ \E i \in Len(desc0)..Len(board.description) :
              IsPrefix(bug.url, Drop(board.description, i))

\* C3 (amended): the description written back is the bug's URL, two
\* newlines, and then the previous description: the URL is a prefix and the
\* previous description the suffix
C3_UrlPrepended ==
    updates > 0 =>
        /\ IsPrefix(bug.url, board.description)
        /\ IsSuffix(desc0, board.description)
        /\ Len(board.description) = Len(bug.url) + 2 + Len(desc0)
        /\ board.description[Len(bug.url) + 1] = "\n"
        /\ board.description[Len(bug.url) + 2] = "\n"
        /\ card.description = board.description

C3_Witness ==
    /\ updates = 1
    /\ desc0 # <<>>
    /\ tracker = "ok"

\* C4 (as claimed): write_config is called at most once in a run
C4_AtMostOneWrite == writes <= 1

\* C4 (amended): load_config writes the file at most once, and every
\* Unauthorized handled in the two retry loops writes it once more
C4_WritesCounted ==
    /\ loadWrites <= 1
    /\ loadWrites = 1 => changed
    /\ writes = loadWrites + authFailures
    /\ writes > 0 => disk[config_file].exists

C4_Witness ==
    /\ loadWrites = 1
    /\ authFailures = 2
    /\ writes = 3

(* C5: the summary of the bug *)

\* the index of the ")" that closes a leading "(digits)", 0 without one
PointsEnd(t) ==
    LET ends == {d \in 3..Len(t) :
                    /\ t[1] = "("
                    /\ \A k \in 2..(d - 1) : t[k] \in Digits
                    /\ t[d] = ")"}
    IN  IF ends = {} THEN 0 ELSE CHOOSE d \in ends : TRUE

\* the title after the leading "(digits)" and the whitespace that follows it
AfterPoints(t) ==
    CHOOSE r \in {Drop(t, k) : k \in PointsEnd(t)..Len(t)} :
        /\ \A k \in (PointsEnd(t) + 1)..(Len(t) - Len(r)) : t[k] \in Whitespace
        /\ r # <<>> => r[1] \notin Whitespace

Summary == posted[1].summary

\* C5 (as claimed): a title with "(digits)" and then whitespace gives the
\* rest of the title after the whitespace, any other title gives itself
C5_StripOnlyBeforeWhitespace ==
    posted # <<>> =>
        LET t == board.name
            d == PointsEnd(t)
        IN  IF d # 0 /\ d < Len(t) /\ t[d + 1] \in Whitespace
            THEN Summary = AfterPoints(t)
            ELSE Summary = t

\* C5 (amended): a title with a leading "(digits)", whitespace after it or
\* not, gives the rest of the title after that whitespace up to its first
\* line break; any other title gives itself
C5_StripPointsPrefix ==
    posted # <<>> =>
        LET t == board.name
            r == AfterPoints(t)
        IN  IF PointsEnd(t) # 0
            THEN /\ IsPrefix(Summary, r)
                 /\ ~Contains(Summary, "\n")
                 /\ Len(Summary) < Len(r) => r[Len(Summary) + 1] = "\n"
            ELSE Summary = t

C5_Witness ==
    /\ posted # <<>>
    /\ board.name = <<"(", "3", ")", "a", "\n">>
    /\ Summary = <<"a">>

(* C6: the card id of the argument *)

\* the path is /c/<id>/... with an id of n >= 1 characters other than "/"
HasCardShape(p, n) ==
    /\ Len(p) >= 4 + n
    /\ SubSeq(p, 1, 3) = <<"/", "c", "/">>
    /\ \A k \in 4..(3 + n) : p[k] # "/"
    /\ p[4 + n] = "/"

\* C6: an argument with a "/" whose URL path is /c/<id>/... hands <id> to
\* main; any other argument with a "/" ends the run with exit code 1 before
\* the config is loaded or a request is made; an argument without "/" is
\* the card id as it is
C6_CardIdResolution ==
    pc # "args" =>
        LET p == urlparse_path(arg)
        IN  IF ~Contains(arg, "/")
            THEN pc # "exit" /\ card_id = arg
            ELSE IF \E n \in 1..Len(p) : HasCardShape(p, n)
            THEN /\ pc # "exit"
                 /\ \A n \in 1..Len(p) :
                       HasCardShape(p, n) => card_id = SubSeq(p, 4, 3 + n)
            ELSE /\ pc = "exit"
                 /\ exit_code = 1
                 /\ raised = "none"
                 /\ config_file = NoVal
                 /\ config = EmptyConfig
                 /\ requests = {}

C6_Witness ==
    /\ pc = "query1"
    /\ arg = <<"a", ":", "/", "c", "/", "a", "/">>
    /\ card_id = <<"a">>

(* C7: the credentials a request needs *)

Needs(kind) ==
    IF kind = "create_oauth_token" THEN {TR_API_KEY, TR_API_SECRET}
    ELSE RequiredOptions

\* C7: every remote request is issued with the options it needs in the
\* config: the two API options for a token generation, all five required
\* options for a card fetch, a tracker POST and a card update
C7_RequestsHaveCredentials ==
    \A r \in requests : Needs(r.kind) \subseteq r.have

C7_Witness ==
    /\ updates = 1
    /\ loadWrites = 1
    /\ disk[config_file].has = RequiredOptions
    /\ \E r \in requests : r.kind = "create_oauth_token" /\ r.have = QueryOptionSet

\* C8: a run POSTs to the tracker at most once, whatever the number of
\* Unauthorized answers handled before and after it
C8_AtMostOnePost == Len(posted) <= 1

C8_Witness ==
    /\ Len(posted) = 1
    /\ authFailures = 2
    /\ pc = "update"
    /\ \E r \in requests : r.kind = "get_card" /\ r.retry

\* C9 (as claimed): a fetch or an update retried after an Unauthorized was
\* handled is issued with the regenerated token pair
C9_RetryUsesRegeneratedCredentials ==
    \A r \in requests :
        (r.retry /\ r.kind \in {"get_card", "set_description"}) =>
            r.token = r.latest

\* C10 (as claimed): without --config the config file is a default file
\* that exists when there is one, and ./.trello-to-bug only when there is
\* none; with --config it is the path given
C10_ExistingDefaultFileUsed ==
    pc = "query1" =>
        IF config_arg # NoVal THEN config_file = config_arg
        ELSE IF \E f \in {LOCAL_CONFIG, HOME_CONFIG} : disk[f].exists
        THEN config_file \in {LOCAL_CONFIG, HOME_CONFIG} /\ disk[config_file].exists
        ELSE config_file = LOCAL_CONFIG

====
